---- MODULE Spec2Model ----
(***************************************************************************)
(* Workflow execution engine of eNMS: Workflow.job (the priority-ordered   *)
(* graph walk), the heap it keeps its pending services in, and the         *)
(* Service/Run attributes it reads.                                        *)
(***************************************************************************)
EXTENDS Integers, Sequences, FiniteSets, TLC

\* ------------------------------------------------------------------ bounds
NumDevices == 2
MaxRuns == 2
MaxPriority == 2
MaxStateKeys == 2
MaxLogLen == 2
MaxSecretLen == 2

Devices == 1..NumDevices
\* Service.priority is a signed Integer column
MinPriority == -1
Priorities == MinPriority..MaxPriority

\* ------------------------------------------------- the database's contents
\* Service.name is unique: a service is identified by its name.
Services == {"Start", "End", "A", "B"}
start == "Start"
end == "End"
\* the executing workflow (self) and another workflow sharing service A
self == "W"
Workflows == {"W", "W2"}

\* Service.skip_value: "True" is the column default, the form stores
\* "success" or "failure".
SkipValues == {"success", "failure", "True"}

RunMethods == {"per_device", "per_service_with_workflow_targets",
               "per_service_with_service_targets"}

EdgeTypes == <<"success", "failure">>

Edge(i, w, src, dst, st) ==
    [id |-> i, workflow |-> w, source |-> src, destination |-> dst, subtype |-> st]

\* The rows workflow_edge can hold in this model; a database is a subset.
AllEdges ==
    { Edge(1, "W", "Start", "A", "success"),
      Edge(2, "W", "Start", "A", "failure"),
      Edge(3, "W", "A", "A", "success"),
      Edge(4, "W", "A", "B", "success"),
      Edge(5, "W", "A", "B", "failure"),
      Edge(6, "W", "A", "End", "success"),
      Edge(7, "W", "B", "End", "success"),
      Edge(8, "W2", "A", "End", "failure") }

EdgeIds == {e.id : e \in AllEdges}

VARIABLES
    edges,            \* workflow_edge table
    svc,              \* service table: priority, maximum_runs, skip, skip_value
    run,              \* the Run/Runner the engine is called with
    device,           \* job's device argument: {} for None, {d} for a device
    pc,               \* where job is: "start", "loop", "runner", "returned", "raised"
    number_of_runs,   \* job local
    targets,          \* job local
    services,         \* job local: the heap
    visited,          \* job local
    service,          \* job local: the service popped last
    state,            \* the run's state tree: progress counters and edges/<id>
    results,          \* what job returned
    hist              \* observation of the run: Runner calls, last iteration

\* the state store (Environment, vs) and the call made to it
VARIABLES
    redis_queue,      \* env.redis_queue: TRUE when the shared store is configured
    redis_db,         \* the shared store's keyspace: strings and lists
    run_states,       \* vs.run_states: runtime -> the in-process state tree
    run_logs,         \* vs.run_logs: runtime -> service -> list of lines or None
    persisted,        \* Run.state of each run (the persisted column)
    call,             \* the get_state / log_queue call in progress or made last
    added             \* the lines each log queue accepted, in the order of the adds

\* the Run rows and their registry, the scheduler client of Task, a private
\* property with the Environment's encryption, and the workflow designs
VARIABLES
    runs,             \* the run table: Run rows by id, and where Run.run is
    run_targets,      \* vs.run_targets: runtime -> set of device ids
    task,             \* a Task row and the scheduler call it made last
    credential,       \* FERNET_KEY, a private property's stored value, the last calls
    design            \* the workflow table: services and edges of each workflow

admin_vars == <<runs, run_targets, task, credential, design>>

store_vars == <<redis_queue, redis_db, run_states, run_logs, persisted, call, added>>

engine_vars == <<edges, svc, run, device, pc, number_of_runs, targets, services,
                 visited, service, state, results, hist>>

vars == <<edges, svc, run, device, pc, number_of_runs, targets, services,
          visited, service, state, results, hist,
          redis_queue, redis_db, run_states, run_logs, persisted, call, added,
          runs, run_targets, task, credential, design>>

\* --------------------------------------------------------------- the heap
\* 1/p < 1/q for non-zero integers p, q (the heap key is 1 / priority).
KeyLt(p, q) ==
    IF p > 0 /\ q > 0 THEN q < p
    ELSE IF p < 0 /\ q < 0 THEN q < p
    ELSE p < 0 /\ q > 0

\* (1/x.priority, x) < (1/y.priority, y) as Python compares tuples: the
\* first components that differ decide; AbstractBase.__lt__ decides between
\* two different services with the same key.
AbstractBase_lt(x, y) == TRUE

TupleLt(x, y) ==
    IF svc[x.service].priority # svc[y.service].priority
    THEN KeyLt(svc[x.service].priority, svc[y.service].priority)
    ELSE IF x.service # y.service THEN AbstractBase_lt(x.service, y.service)
    ELSE FALSE

RECURSIVE siftdown_loop(_, _, _, _)
siftdown_loop(heap, startpos, pos, newitem) ==
    IF pos > startpos
    THEN LET parentpos == pos \div 2
             parent == heap[parentpos]
         IN  IF TupleLt(newitem, parent)
             THEN siftdown_loop([heap EXCEPT ![pos] = parent], startpos, parentpos, newitem)
             ELSE [heap EXCEPT ![pos] = newitem]
    ELSE [heap EXCEPT ![pos] = newitem]

\* heapq._siftdown, positions counted from 1
siftdown(heap, startpos, pos) == siftdown_loop(heap, startpos, pos, heap[pos])

RECURSIVE siftup_loop(_, _, _)
siftup_loop(heap, pos, newitem) ==
    LET endpos == Len(heap)
        childpos == 2 * pos
        rightpos == childpos + 1
    IN  IF childpos <= endpos
        THEN LET c == IF rightpos <= endpos /\ ~TupleLt(heap[childpos], heap[rightpos])
                      THEN rightpos ELSE childpos
             IN  siftup_loop([heap EXCEPT ![pos] = heap[c]], c, newitem)
        ELSE <<[heap EXCEPT ![pos] = newitem], pos>>

\* heapq._siftup
siftup(heap, pos) ==
    LET r == siftup_loop(heap, pos, heap[pos])
    IN  siftdown(r[1], pos, r[2])

heappush(heap, item) == siftdown(Append(heap, item), 1, Len(heap) + 1)

\* heappop returns <<heap after the pop, popped item>>
heappop(heap) ==
    LET lastelt == heap[Len(heap)]
        rest == SubSeq(heap, 1, Len(heap) - 1)
    IN  IF rest # <<>>
        THEN <<siftup([rest EXCEPT ![1] = lastelt], 1), rest[1]>>
        ELSE <<rest, lastelt>>

\* ------------------------------------------------------ the run's state
Unset == [kind |-> "unset", n |-> 0]
Done == [kind |-> "DONE", n |-> 0]
IntValue(n) == [kind |-> "int", n |-> n]

Paths == {<<"progress", "service", st>> : st \in {"success", "failure"}}
             \cup {<<"edges", i>> : i \in EdgeIds}

\* Runner.write_state(path, value, mode): "increment" adds to the stored
\* number (an absent key counts as 0), the default mode overwrites.
write_state(st, path, value, mode) ==
    IF mode = "increment"
    THEN [st EXCEPT ![path] = IntValue((IF @.kind = "int" THEN @.n ELSE 0) + value)]
    ELSE [st EXCEPT ![path] = value]

\* ------------------------------------------------------------- Service
\* Service.neighbors(workflow, "destination", subtype): the edges leaving
\* the service, in the order of the relationship list (by id), filtered by
\* subtype and workflow; each yields (edge.destination, edge).
RECURSIVE SortById(_)
SortById(es) ==
    IF es = {} THEN <<>>
    ELSE LET e == CHOOSE x \in es : \A y \in es : x.id <= y.id
         IN  <<e>> \o SortById(es \ {e})

\* the filter without the workflow
neighbors_filter_any(edge, workflow, subtype) == edge.subtype = subtype

neighbors_filter(edge, workflow, subtype) ==
    edge.subtype = subtype /\ edge.workflow = workflow

neighbors(s, workflow, subtype) ==
    SortById({e \in edges : e.source = s /\ neighbors_filter(e, workflow, subtype)})

\* ------------------------------------------------------------ Workflow.job
tracking_bfs == run.run_method = "per_service_with_workflow_targets"

Entry(s, n) == [service |-> s, seq |-> n]

NoSummary == [success |-> {}, failure |-> {}]

NoResults == [kind |-> "none", success |-> FALSE, summary |-> NoSummary]

\* lines 116-120: one seed
RECURSIVE SeedLoop(_, _)
SeedLoop(ids, acc) ==
    IF ids = <<>> \/ acc.raised # "none" THEN acc
    ELSE LET s == Head(ids)
             start_targets == IF device # {} THEN device ELSE run.target_devices
             t1 == [acc.targets EXCEPT ![s] = @ \cup start_targets]
         IN  IF svc[s].priority = 0
             THEN [acc EXCEPT !.targets = t1, !.raised = "ZeroDivisionError"]
             ELSE SeedLoop(Tail(ids),
                           [acc EXCEPT !.targets = t1,
                                       !.services = heappush(acc.services, Entry(s, acc.pushes + 1)),
                                       !.pushes = acc.pushes + 1])

\* FollowEdge with the count written over the stored one instead of added
FollowEdge_overwrite(acc, e, edge_type, res) ==
    IF (tracking_bfs \/ device # {}) /\ ~res.has_summary
    THEN [acc EXCEPT !.raised = "KeyError"]
    ELSE LET t1 == IF tracking_bfs \/ device # {}
                   THEN [acc.targets EXCEPT ![e.destination] = @ \cup res.summary[edge_type]]
                   ELSE acc.targets
         IN  IF svc[e.destination].priority = 0
             THEN [acc EXCEPT !.targets = t1, !.raised = "ZeroDivisionError"]
             ELSE [acc EXCEPT
                     !.targets = t1,
                     !.services = heappush(acc.services, Entry(e.destination, acc.pushes + 1)),
                     !.pushes = acc.pushes + 1,
                     !.followed = @ \cup {e.id},
                     !.state = IF tracking_bfs \/ device # {}
                               THEN write_state(@, <<"edges", e.id>>,
                                                IntValue(Cardinality(res.summary[edge_type])), "set")
                               ELSE write_state(@, <<"edges", e.id>>, Done, "set")]

\* lines 168-179: one (successor, edge) of the inner loop
FollowEdge(acc, e, edge_type, res) ==
    IF (tracking_bfs \/ device # {}) /\ ~res.has_summary
    THEN [acc EXCEPT !.raised = "KeyError"]
    ELSE LET t1 == IF tracking_bfs \/ device # {}
                   THEN [acc.targets EXCEPT ![e.destination] = @ \cup res.summary[edge_type]]
                   ELSE acc.targets
         IN  IF svc[e.destination].priority = 0
             THEN [acc EXCEPT !.targets = t1, !.raised = "ZeroDivisionError"]
             ELSE [acc EXCEPT
                     !.targets = t1,
                     !.services = heappush(acc.services, Entry(e.destination, acc.pushes + 1)),
                     !.pushes = acc.pushes + 1,
                     !.followed = @ \cup {e.id},
                     !.state = IF tracking_bfs \/ device # {}
                               THEN write_state(@, <<"edges", e.id>>,
                                                Cardinality(res.summary[edge_type]), "increment")
                               ELSE write_state(@, <<"edges", e.id>>, Done, "set")]

RECURSIVE FollowEdges(_, _, _, _)
FollowEdges(acc, es, edge_type, res) ==
    IF es = <<>> \/ acc.raised # "none" THEN acc
    ELSE FollowEdges(FollowEdge(acc, Head(es), edge_type, res), Tail(es), edge_type, res)

\* lines 163-167: one edge_type of the outer loop
EdgeTypeStep(acc, s, edge_type, status, res) ==
    IF acc.raised # "none" THEN acc
    ELSE IF ~tracking_bfs /\ edge_type # status THEN acc
    ELSE IF tracking_bfs /\ ~res.has_summary THEN [acc EXCEPT !.raised = "KeyError"]
    ELSE IF tracking_bfs /\ res.summary[edge_type] = {} THEN acc
    ELSE FollowEdges(acc, neighbors(s, self, edge_type), edge_type, res)

\* lines 159-179: progress and edge propagation for the results of service s
Status(res) == IF res.success THEN "success" ELSE "failure"

\* the progress counter written in every mode
ProgressWritten_always(st, status) ==
    write_state(st, <<"progress", "service", status>>, 1, "increment")

\* lines 161-162
ProgressWritten(st, status) ==
    IF ~tracking_bfs /\ device = {}
    THEN write_state(st, <<"progress", "service", status>>, 1, "increment")
    ELSE st

Propagate(s, res, heap) ==
    LET status == Status(res)
        acc0 == [targets |-> targets, services |-> heap, pushes |-> hist.pushes,
                 followed |-> {}, raised |-> "none",
                 state |-> ProgressWritten(state, status)]
        acc1 == EdgeTypeStep(acc0, s, EdgeTypes[1], status, res)
    IN  EdgeTypeStep(acc1, s, EdgeTypes[2], status, res)

\* What a Runner can hand back for target set T (Runner step 8 and its stop
\* checkpoint): an empty result, the aborted result without a summary once
\* run.stop is set, or a result whose summary splits T; success means that
\* no target failed (with no target at all it is the service's own verdict).
EmptyResult == [empty |-> TRUE, success |-> FALSE, has_summary |-> FALSE,
                summary |-> NoSummary]

AbortedResult == [empty |-> FALSE, success |-> FALSE, has_summary |-> FALSE,
                  summary |-> NoSummary]

RunnerResults(T) ==
    {EmptyResult}
    \cup (IF run.stop THEN {AbortedResult} ELSE {})
    \cup {[empty |-> FALSE, success |-> b, has_summary |-> TRUE,
           summary |-> [success |-> S, failure |-> T \ S]] :
              <<b, S>> \in {x \in BOOLEAN \X SUBSET T : T # {} => (x[1] <=> x[2] = T)}}

\* lines 131-138: the results synthesised for Start, End and skipped services
SkippedResults(s) ==
    [empty |-> FALSE,
     success |-> svc[s].skip_value = "success",
     has_summary |-> tracking_bfs \/ device # {},
     summary |-> IF tracking_bfs \/ device # {}
                 THEN [success |-> targets[s], failure |-> {}]
                 ELSE NoSummary]

\* what the last step of job did: the entry it popped from which heap, the
\* outcome and summary it propagated, the edges it followed, what it raised
Last(kind, entry, status, followed, heap, raised, summary) ==
    [kind |-> kind, entry |-> entry, status |-> status, followed |-> followed,
     heap |-> heap, raised |-> raised, summary |-> summary]

NoEntry == Entry("None", 0)

\* ---------------------------------------------------------- the state store
\* Run.runtime of the two runs (timestamps of vs.get_time(): no "/" and no
\* glob character), the services that log, the paths written under
\* <runtime>/state/: a canonical one and two keys of user code, one of which
\* extends the other. Run r1 is the run under test, r2 the run beside it.
Runtimes == {"r1", "r2"}
ServiceIds == {"7"}
StatePaths == {<<"edges", "1">>, <<"custom">>, <<"custom", "flag">>}
PathsOf(r) == IF r = "r1" THEN StatePaths ELSE {<<"edges", "1">>}

\* what each run writes: the values and lines of the two runs are disjoint,
\* so that a value tells the run that wrote it
Values(r) == IF r = "r1" THEN {"True", "1"} ELSE {"False"}
Lines(r) == IF r = "r1" THEN {"a1", "a2"} ELSE {"b1"}

\* a key is the sequence of its "/"-separated segments
StateKey(r, path) == <<r, "state">> \o path
LogKey(r, s) == <<r, s, "logs">>

AllKeys == {StateKey(r, p) : r \in Runtimes, p \in StatePaths}
               \cup {LogKey(r, s) : r \in Runtimes, s \in ServiceIds}

\* the entries of the shared store
Nil == [type |-> "none", string |-> "", list |-> <<>>]
String(v) == [type |-> "string", string |-> v, list |-> <<>>]
List(l) == [type |-> "list", string |-> "", list |-> l]

\* KEYS with the pattern of every runtime: the runtime left out of the match
GlobMatch_any(r, k) == Len(k) >= 3 /\ k[2] = "state"

\* the pattern f"{runtime}/state/*" matches the keys that start with
\* "<runtime>/state/"
GlobMatch(r, k) == Len(k) >= 3 /\ k[1] = r /\ k[2] = "state"

redis_keys(db, r) == {k \in AllKeys : db[k].type # "none" /\ GlobMatch(r, k)}

\* MGET yields None for a key that holds no string
redis_mget(db, keys) ==
    [i \in 1..Len(keys) |->
        IF db[keys[i]].type = "string" THEN db[keys[i]].string ELSE "None"]

redis_set(db, k, v) == [db EXCEPT ![k] = String(v)]

redis_lpush(db, k, v) == [db EXCEPT ![k] = List(<<v>> \o @.list)]

\* LRANGE key 0 -1
redis_lrange(db, k) == db[k].list

\* the orders in which KEYS may list a set of keys
Orders(S) ==
    {q \in [1..Cardinality(S) -> S] : \A i, j \in 1..Cardinality(S) : q[i] = q[j] => i = j}

\* Python: seq[::-1] and seq[n:]
Reversed(q) == [i \in 1..Len(q) |-> q[Len(q) + 1 - i]]
SliceFrom(q, n) == SubSeq(q, n + 1, Len(q))

\* log_queue's "get" on the shared store with the list taken as LRANGE gives it
shared_get_unreversed(log, start_line) ==
    IF log # <<>> THEN SliceFrom(log, start_line) ELSE log

\* environment.py:152-153
shared_get(log, start_line) ==
    IF log # <<>> THEN SliceFrom(Reversed(log), start_line) ELSE log

\* nested dicts: a dict node maps keys to nodes, a leaf holds a value
EmptyDict == [kind |-> "dict", items |-> <<>>, value |-> ""]
Dict(items) == [kind |-> "dict", items |-> items, value |-> ""]
Leaf(kind, v) == [kind |-> kind, items |-> <<>>, value |-> v]
TypeErrorTree == [kind |-> "TypeError", items |-> <<>>, value |-> ""]

Put(items, k, node) ==
    [x \in (DOMAIN items) \cup {k} |-> IF x = k THEN node ELSE items[x]]

\* inner_store = inner_store.setdefault(key, {}) along path, then
\* inner_store[last_key] = value; a str or bool met on the way raises
RECURSIVE tree_set(_, _, _)
tree_set(node, path, leaf) ==
    IF node.kind # "dict" THEN TypeErrorTree
    ELSE IF Len(path) = 1 THEN Dict(Put(node.items, path[1], leaf))
    ELSE LET child == IF path[1] \in DOMAIN node.items
                      THEN node.items[path[1]] ELSE EmptyDict
             r == tree_set(child, Tail(path), leaf)
         IN  IF r.kind = "TypeError" THEN r
             ELSE Dict(Put(node.items, path[1], r))

\* log.split("/")[1:]
path_of_key_1(key) == SubSeq(key, 2, Len(key))

\* log.split("/")[2:]
path_of_key(key) == SubSeq(key, 3, Len(key))

\* automation.py:406-407
Convert(v) == IF v \in {"False", "True"} THEN Leaf("bool", v) ELSE Leaf("str", v)

\* automation.py:402-408: the loop over data
RECURSIVE get_state_loop(_, _)
get_state_loop(tree, data) ==
    IF data = <<>> \/ tree.kind = "TypeError" THEN tree
    ELSE get_state_loop(tree_set(tree, path_of_key(Head(data)[1]), Convert(Head(data)[2])),
                        Tail(data))

\* no call made yet
NoCall ==
    [name |-> "none", runtime |-> "r1", service |-> "7", mode |-> "none",
     start_line |-> 0, pc |-> "idle", keys |-> <<>>, data |-> <<>>,
     returned |-> EmptyDict, lines |-> <<>>, nil |-> FALSE, raised |-> "none",
     failed |-> FALSE, logged |-> FALSE]

\* a run's log list in vs.run_logs
LogList(l) == [none |-> FALSE, lines |-> l]
NoneList == [none |-> TRUE, lines |-> <<>>]

\* the store before any run wrote to it
StoreEmpty ==
    /\ redis_db = [k \in AllKeys |-> Nil]
    /\ run_states = [r \in Runtimes |-> EmptyDict]
    /\ run_logs = [r \in Runtimes |-> [s \in ServiceIds |-> LogList(<<>>)]]
    /\ call = NoCall
    /\ added = [r \in Runtimes |-> [s \in ServiceIds |-> <<>>]]

\* the engine's walk makes no call to the store
StoreIdle ==
    /\ redis_queue = FALSE
    /\ persisted = [r \in Runtimes |-> EmptyDict]
    /\ StoreEmpty

\* ------------------------------------------------------------ Run and Task
\* the run table holds at most these rows; a run's runtime is unique, so
\* the id stands for it
RunIds == {1, 2}
TargetChoices == {{}, Devices}
PoolChoices == {{}, {"pool"}}

NoRun == [exists |-> FALSE, target_devices |-> {}, target_pools |-> {},
          restart_run |-> 0, state |-> "None",
          kwargs |-> [target_devices |-> {}, target_pools |-> {}],
          pc |-> "none", writes |-> 0]

\* what a finished Runner leaves in Run.state
FinalState == "saved"

\* a run that keeps the targets it was given
Run_init_targets_given(given, inherited, restart_run) == given

\* Run.__init__, lines 348-350: the targets of restart_run replace the ones
\* update() has set from the keyword arguments
Run_init_targets(given, inherited, restart_run) ==
    IF restart_run # 0 THEN inherited ELSE given

\* vs.run_targets
NoTargets == [present |-> FALSE, devices |-> {}]

\* controller.filtering("device", bulk="id", rbac="target", username=creator):
\* the devices the creator of the run may target
filtering(r) == IF r = 1 THEN Devices ELSE {1}

\* Python values the scheduler client returns
\* of type "str", "json" (a decoded response), "alert" (the mapping with the
\* alert key) or "None"
Value(type, text, active) == [type |-> type, text |-> text, active |-> active]

\* what a request to the scheduler ends in: a JSON response, a response that
\* is not JSON, or an exception of requests. get is called with timeout=0.01,
\* post with no timeout.
GetOutcomes == {"json", "malformed", "ConnectionError", "ReadTimeout"}
PostOutcomes == {"json", "malformed", "ConnectionError"}

\* the exception a request with that outcome raises ("" for none); the
\* malformed response raises in .json()
Raises(outcome) ==
    CASE outcome = "json" -> ""
      [] outcome = "malformed" -> "JSONDecodeError"
      [] OTHER -> outcome

\* Task._catch_request_exceptions: the value returned for an exception
catch_request_exceptions(exc) ==
    IF exc \in {"ConnectionError", "MissingSchema", "ReadTimeout"}
    THEN Value("str", "Scheduler Unreachable", FALSE)
    ELSE \* f"Error ({exc})", here with the message of json()'s exception
         Value("str", "Error (Expecting value: line 1 column 1 (char 0))", FALSE)

NoTaskCall == [op |-> "none", mode |-> "", outcome |-> "", pc |-> "none", value |-> Value("None", "", FALSE),
               exc |-> ""]


\* ------------------------------------------------------------- credentials
\* Python str and bytes values: sequences of code points and of bytes
\* of type "None", "str", "bytes", or the name of an exception raised
Py(type, val) == [type |-> type, val |-> val]

\* `not value`
Falsy(value) == value.type = "None" \/ value.val = <<>>

\* the secrets assigned: strings of "A" (U+0041) and "e-acute" (U+00E9)
Chars == {65, 233}
Secrets == UNION {[1..n -> Chars] : n \in 1..MaxSecretLen}

\* an encoding that writes each code point as one byte
utf8_encode_latin1(cps) == cps

\* str.encode(s): UTF-8, one byte below U+0080 and two below U+0800
RECURSIVE utf8_encode(_)
utf8_encode(cps) ==
    IF cps = <<>> THEN <<>>
    ELSE LET cp == Head(cps)
         IN  (IF cp < 128 THEN <<cp>>
              ELSE <<192 + (cp \div 64), 128 + (cp % 64)>>) \o utf8_encode(Tail(cps))

\* the code points of UTF-8 bytes; -1 stands for a byte that cannot be decoded
RECURSIVE utf8_decode(_)
utf8_decode(bytes) ==
    IF bytes = <<>> THEN <<>>
    ELSE LET b == Head(bytes)
         IN  IF b < 128 THEN <<b>> \o utf8_decode(Tail(bytes))
             ELSE IF /\ b >= 194 /\ b < 224 /\ Len(bytes) >= 2
                     /\ bytes[2] >= 128 /\ bytes[2] < 192
             THEN <<(b - 192) * 64 + (bytes[2] - 128)>> \o utf8_decode(Tail(Tail(bytes)))
             ELSE <<-1>>

\* str(value, "utf-8") and bytes.decode("utf-8")
decode(value) ==
    IF value.type # "bytes" THEN Py("TypeError", <<>>)
    ELSE LET cps == utf8_decode(value.val)
         IN  IF \E i \in 1..Len(cps) : cps[i] = -1
             THEN Py("UnicodeDecodeError", <<>>) ELSE Py("str", cps)

\* the base64 alphabet, as ASCII codes; the URL-safe one differs in 62, 63;
\* the padding "=" is 61
B64Char(i, urlsafe) ==
    IF i < 26 THEN 65 + i
    ELSE IF i < 52 THEN 71 + i
    ELSE IF i < 62 THEN i - 4
    ELSE IF i = 62 THEN (IF urlsafe THEN 45 ELSE 43)
    ELSE (IF urlsafe THEN 95 ELSE 47)

\* base64.b64encode(bytes)
RECURSIVE b64encode(_, _)
b64encode(bytes, urlsafe) ==
    IF bytes = <<>> THEN <<>>
    ELSE LET n == Len(bytes)
             b1 == bytes[1]
             b2 == IF n >= 2 THEN bytes[2] ELSE 0
             b3 == IF n >= 3 THEN bytes[3] ELSE 0
             group == b1 * 65536 + b2 * 256 + b3
             c1 == B64Char(group \div 262144, urlsafe)
             c2 == B64Char((group \div 4096) % 64, urlsafe)
             c3 == IF n >= 2 THEN B64Char((group \div 64) % 64, urlsafe) ELSE 61
             c4 == IF n >= 3 THEN B64Char(group % 64, urlsafe) ELSE 61
         IN  <<c1, c2, c3, c4>>
                \o (IF n > 3 THEN b64encode(SubSeq(bytes, 4, n), urlsafe) ELSE <<>>)

B64Index(c, urlsafe) == CHOOSE i \in 0..63 : B64Char(i, urlsafe) = c

\* base64.b64decode(s) of well-formed input: <<-1>> for any other input
RECURSIVE b64decode(_, _)
b64decode(chars, urlsafe) ==
    LET B64Valid(c, u) == \E i \in 0..63 : B64Char(i, u) = c
    IN
    IF chars = <<>> THEN <<>>
    ELSE IF \/ Len(chars) < 4
            \/ ~B64Valid(chars[1], urlsafe) \/ ~B64Valid(chars[2], urlsafe)
            \/ ~(chars[3] = 61 \/ B64Valid(chars[3], urlsafe))
            \/ ~(chars[4] = 61 \/ B64Valid(chars[4], urlsafe))
            \/ (chars[3] = 61 /\ chars[4] # 61)
            \/ (chars[4] = 61 /\ Len(chars) > 4)
    THEN <<-1>>
    ELSE LET i1 == B64Index(chars[1], urlsafe)
             i2 == B64Index(chars[2], urlsafe)
             i3 == IF chars[3] = 61 THEN 0 ELSE B64Index(chars[3], urlsafe)
             i4 == IF chars[4] = 61 THEN 0 ELSE B64Index(chars[4], urlsafe)
             group == i1 * 262144 + i2 * 4096 + i3 * 64 + i4
             bytes == <<group \div 65536, (group \div 256) % 256, group % 256>>
             n == IF chars[3] = 61 THEN 1 ELSE IF chars[4] = 61 THEN 2 ELSE 3
         IN  SubSeq(bytes, 1, n) \o b64decode(SubSeq(chars, 5, Len(chars)), urlsafe)

\* Fernet: the token is the URL-safe base64 of the version byte 128, the IV and
\* the ciphertext; the cipher is stood for by a shift of each byte by the
\* IV, which decrypt undoes. A token differs from the data and from one
\* encryption to the next.
IVs == {1, 2}
Fernet_encrypt(bytes, iv) ==
    b64encode(<<128, iv>> \o [i \in 1..Len(bytes) |-> (bytes[i] + iv) % 256], TRUE)

Fernet_decrypt(token) ==
    LET raw == b64decode(token, TRUE)
    IN  IF Len(raw) < 2 \/ (\E i \in 1..Len(raw) : raw[i] = -1) \/ raw[1] # 128
        THEN Py("InvalidToken", <<>>)
        ELSE Py("bytes", [i \in 1..(Len(raw) - 2) |-> (raw[i + 2] + 256 - raw[2]) % 256])

\* env.encrypt and env.decrypt, as init_encryption sets them
encrypt(fernet, bytes, iv) ==
    IF fernet THEN Py("bytes", Fernet_encrypt(bytes, iv)) ELSE Py("bytes", b64encode(bytes, FALSE))

decrypt(fernet, password) ==
    IF fernet
    THEN (IF password.type = "bytes" THEN Fernet_decrypt(password.val) ELSE Py("TypeError", <<>>))
    ELSE LET raw == b64decode(password.val, FALSE)
         IN  IF \E i \in 1..Len(raw) : raw[i] = -1
             THEN Py("binascii.Error", <<>>) ELSE Py("bytes", raw)

\* Environment.encrypt_password
encrypt_password(fernet, password, iv) ==
    encrypt(fernet, IF password.type = "str" THEN utf8_encode(password.val) ELSE password.val, iv)

\* Environment.get_password
get_password(fernet, password) ==
    IF Falsy(password) THEN Py("None", <<>>)
    ELSE LET encoded == IF fernet /\ password.type = "str"
                        THEN Py("bytes", utf8_encode(password.val)) ELSE password
             plain == decrypt(fernet, encoded)
         IN  IF plain.type = "bytes" THEN decode(plain) ELSE plain

\* AbstractBase.__setattr__ of a private property: the value stored
setattr_private(fernet, stored, value, iv) ==
    IF Falsy(value) THEN stored
    ELSE decode(encrypt_password(fernet, value, iv))


\* ---------------------------------------------------------- workflow design
\* the workflow names: W1 is created, the others are the names
\* Service.duplicate gives to copies, "<scoped_name> (<index>)"
DesignNames == {"W1", "W1 (1)", "W1 (2)", "W1 (1) (1)"}

NoWorkflow == [exists |-> FALSE, services |-> <<>>, edges |-> <<>>, clone_of |-> "none"]

\* no run, task call, secret or workflow; fernet tells whether FERNET_KEY
\* is set
AdminIdle(fernet) ==
    /\ runs = [r \in RunIds |-> NoRun]
    /\ run_targets = [r \in RunIds |-> NoTargets]
    /\ task = [is_active |-> FALSE, last_scheduled_by |-> "", call |-> NoTaskCall]
    /\ credential = [fernet |-> fernet, stored |-> Py("None", <<>>),
                     assigned |-> Py("None", <<>>), secret |-> Py("None", <<>>),
                     retrieved |-> Py("None", <<>>), op |-> "none"]
    /\ design = [n \in DesignNames |-> NoWorkflow]

\* ------------------------------------------------------------------ Init
\* Workflow graphs: the edges of workflow W2 are always there, W holds at
\* most MaxEdges of its candidate edges.
MaxEdges == 2

\* the workflows of the acceptance scenarios: S1, Start -> A -> B -> End with
\* success edges only, and S2, Start -> A -> End on success with the detour
\* A -> B -> End on failure
LinearGraph == {e \in AllEdges : e.id \in {1, 4, 7}}

BranchGraph == {e \in AllEdges : e.id \in {1, 5, 6, 7}}

Graphs ==
    {g \cup {e \in AllEdges : e.workflow # self} :
        g \in {x \in SUBSET {e \in AllEdges : e.workflow = self} : Cardinality(x) <= MaxEdges}
                \cup {LinearGraph, BranchGraph}}

\* Start and End are the reserved services (never skipped, run once); B keeps
\* the column defaults but for its priority, which may be 0; A is the service
\* under test: any priority or any maximum_runs, or skipped with either
\* skip_value.
ServiceA ==
    {[priority |-> p, maximum_runs |-> m, skip |-> FALSE, skip_value |-> "True"] :
        <<p, m>> \in {x \in Priorities \X (1..MaxRuns) : x[1] = 1 \/ x[2] = 1}}
    \cup {[priority |-> 1, maximum_runs |-> 1, skip |-> TRUE, skip_value |-> v] :
            v \in {"success", "failure"}}

ServiceTables ==
    {[s \in Services |->
        IF s = start
        THEN [priority |-> 1, maximum_runs |-> 1, skip |-> FALSE, skip_value |-> rv]
        ELSE IF s = end
        THEN [priority |-> ep, maximum_runs |-> 1, skip |-> FALSE, skip_value |-> rv]
        ELSE IF s = "A" THEN a
        ELSE [priority |-> bp, maximum_runs |-> 1, skip |-> FALSE, skip_value |-> "True"]] :
      rv \in {"success", "True"}, a \in ServiceA, ep \in {1, MaxPriority}, bp \in {0, 1}}

StartServices == {<<>>, <<"A">>}

Runs ==
    {[run_method |-> rm, target_devices |-> td, start_services |-> ss, stop |-> FALSE] :
        rm \in RunMethods, td \in {{}, {1}, Devices}, ss \in StartServices}

Init ==
    /\ StoreIdle
    /\ AdminIdle(FALSE)
    /\ edges \in Graphs
    /\ svc \in ServiceTables
    /\ run \in Runs
    /\ device \in {{}, {1}}
    \* only the per-device outer Runner passes a device; without a device
    \* the run's targets matter only when they are propagated
    /\ device # {} => run.run_method = "per_device" /\ run.target_devices = Devices
    /\ ~tracking_bfs => (run.target_devices # {})
    \* End's priority and a single target device vary in the scenario
    \* workflows only
    /\ svc[end].priority # 1 => {e \in edges : e.workflow = self} = BranchGraph
    /\ run.target_devices = {1} => {e \in edges : e.workflow = self} = LinearGraph
    \* B's priority matters only where an edge leads to B
    /\ svc["B"].priority # 1 => \E e \in edges : e.workflow = self /\ e.destination = "B"
    /\ pc = "start"
    /\ number_of_runs = [s \in Services |-> 0]
    /\ targets = [s \in Services |-> {}]
    /\ services = <<>>
    /\ visited = {}
    /\ service = "None"
    /\ state = [p \in Paths |-> Unset]
    /\ results = NoResults
    /\ hist = [runner_calls |-> [s \in Services |-> 0], pushes |-> 0, stopped_in |-> "none",
               empty_results |-> 0, dispatched |-> [s \in Services |-> {}],
               last |-> Last("none", NoEntry, "none", {}, <<>>, "none", NoSummary)]

cfg == <<edges, svc, device>>

\* ---------------------------------------------------------------- actions
\* the outcome of lines 159-179 becomes the state of the engine
Propagated(acc, kind, entry, res, heap) ==
    /\ targets' = acc.targets
    /\ services' = acc.services
    /\ state' = acc.state
    /\ pc' = IF acc.raised = "none" THEN "loop" ELSE "raised"
    /\ hist' = [hist EXCEPT !.pushes = acc.pushes,
                            !.empty_results = @ + (IF res.empty THEN 1 ELSE 0),
                            \* lines 134-138: the summary synthesised holds targets[s]
                            !.dispatched[entry.service] =
                                IF kind = "skipped" /\ res.has_summary
                                THEN @ \cup res.summary.success ELSE @,
                            !.last = Last(kind, entry, Status(res), acc.followed,
                                          heap, acc.raised, res.summary)]

\* lines 112-122: job starts, seeds targets and the heap
Seed ==
    /\ pc = "start"
    /\ LET ids == IF run.start_services # <<>> THEN run.start_services ELSE <<start>>
           acc == SeedLoop(ids, [targets |-> targets, services |-> services,
                                 pushes |-> hist.pushes, raised |-> "none"])
       IN  /\ targets' = acc.targets
           /\ services' = acc.services
           /\ pc' = IF acc.raised = "none" THEN "loop" ELSE "raised"
           /\ hist' = [hist EXCEPT !.pushes = acc.pushes,
                                   !.last = Last("seed", NoEntry, "none", {}, services, acc.raised, NoSummary)]
    /\ UNCHANGED <<cfg, store_vars, admin_vars, run, number_of_runs, visited, service, state, results>>

\* JobResults reporting success once Start was dispatched
JobResults_start ==
    IF tracking_bfs \/ device # {}
    THEN LET failed == targets[start] \ targets[end]
         IN  [kind |-> "summary", success |-> failed = {},
              summary |-> [success |-> targets[end], failure |-> failed]]
    ELSE [kind |-> "plain", success |-> start \in visited, summary |-> NoSummary]

\* lines 180-189: the results job returns when the heap is empty
JobResults ==
    IF tracking_bfs \/ device # {}
    THEN LET failed == targets[start] \ targets[end]
         IN  [kind |-> "summary", success |-> failed = {},
              summary |-> [success |-> targets[end], failure |-> failed]]
    ELSE [kind |-> "plain", success |-> end \in visited, summary |-> NoSummary]

\* lines 123, 180-191: the heap is empty, job computes its result and returns
Finish ==
    /\ pc = "loop"
    /\ services = <<>>
    /\ results' = JobResults
    /\ pc' = "returned"
    /\ hist' = [hist EXCEPT !.last = Last("finished", NoEntry, "none", {}, services, "none", NoSummary)]
    /\ UNCHANGED <<cfg, store_vars, admin_vars, run, number_of_runs, targets, services, visited, service, state>>

\* lines 124-125: the cancellation checkpoint
Abort ==
    /\ pc = "loop"
    /\ services # <<>>
    /\ run.stop
    /\ results' = [kind |-> "Aborted", success |-> FALSE,
                   summary |-> NoSummary]
    /\ pc' = "returned"
    /\ hist' = [hist EXCEPT !.last = Last("aborted", NoEntry, "none", {}, services, "none", NoSummary)]
    /\ UNCHANGED <<cfg, store_vars, admin_vars, run, number_of_runs, targets, services, visited, service, state>>

\* lines 126-128: the popped service has used up its runs
MaximumRunsReached_gt(s) == number_of_runs[s] > svc[s].maximum_runs

MaximumRunsReached(s) == number_of_runs[s] >= svc[s].maximum_runs

PopCapped ==
    /\ pc = "loop"
    /\ services # <<>>
    /\ ~run.stop
    /\ LET popped == heappop(services)
       IN  /\ MaximumRunsReached(popped[2].service)
           /\ services' = popped[1]
           /\ service' = popped[2].service
           /\ hist' = [hist EXCEPT !.last = Last("capped", popped[2], "none", {}, services, "none", NoSummary)]
    /\ UNCHANGED <<cfg, store_vars, admin_vars, run, pc, number_of_runs, targets, visited, state, results>>

IsSkipped(s) == s \in {start, end} \/ svc[s].skip

\* lines 126-138, 159-179: Start, End or a skipped service is popped; its
\* results are synthesised and propagated
PopSkipped ==
    /\ pc = "loop"
    /\ services # <<>>
    /\ ~run.stop
    /\ LET popped == heappop(services)
           s == popped[2].service
       IN  /\ ~MaximumRunsReached(s)
           /\ IsSkipped(s)
           /\ service' = s
           /\ number_of_runs' = [number_of_runs EXCEPT ![s] = @ + 1]
           /\ visited' = visited \cup {s}
           /\ LET res == SkippedResults(s)
              IN  Propagated(Propagate(s, res, popped[1]), "skipped", popped[2], res, services)
    /\ UNCHANGED <<cfg, store_vars, admin_vars, run, results>>

\* lines 126-130, 139-156: a service is popped and a Runner is created for
\* it; the Runner executes until RunnerReturns
PopRunner ==
    /\ pc = "loop"
    /\ services # <<>>
    /\ ~run.stop
    /\ LET popped == heappop(services)
           s == popped[2].service
       IN  /\ ~MaximumRunsReached(s)
           /\ ~IsSkipped(s)
           /\ services' = popped[1]
           /\ service' = s
           /\ number_of_runs' = [number_of_runs EXCEPT ![s] = @ + 1]
           /\ visited' = visited \cup {s}
           /\ hist' = [hist EXCEPT !.runner_calls[s] = @ + 1,
                                   \* lines 150-153: kwargs["target_devices"]
                                   !.dispatched[s] = IF tracking_bfs \/ device # {}
                                                     THEN @ \cup targets[s] ELSE @,
                                   !.last = Last("dispatch", popped[2], "none", {}, services, "none",
                                                 NoSummary)]
    /\ pc' = "runner"
    /\ UNCHANGED <<cfg, store_vars, admin_vars, run, targets, state, results>>

\* an empty result taken for results to propagate
IsEmpty_never(res) == FALSE

\* line 157: `if not results`
IsEmpty(res) == res.empty

\* lines 156-179: the Runner hands back its results
RunnerReturns ==
    /\ pc = "runner"
    /\ \E res \in RunnerResults(IF tracking_bfs \/ device # {}
                                THEN targets[service] ELSE run.target_devices) :
          IF IsEmpty(res)
          THEN /\ pc' = "loop"
               /\ hist' = [hist EXCEPT !.empty_results = @ + 1,
                                       !.last = Last("empty", hist.last.entry, "none", {},
                                                      hist.last.heap, "none", NoSummary)]
               /\ UNCHANGED <<targets, services, state>>
          ELSE Propagated(Propagate(service, res, services), "runner", hist.last.entry,
                          res, hist.last.heap)
    /\ UNCHANGED <<cfg, store_vars, admin_vars, run, number_of_runs, visited, service, results>>

\* another thread requests the stop (run.stop = True) while job executes
SetStop ==
    /\ pc \in {"loop", "runner"}
    /\ ~run.stop
    /\ run' = [run EXCEPT !.stop = TRUE]
    /\ hist' = [hist EXCEPT !.stopped_in = pc]
    /\ UNCHANGED <<cfg, store_vars, admin_vars, pc, number_of_runs, targets, services, visited, service,
                   state, results>>

Next ==
    \/ Seed
    \/ Finish
    \/ Abort
    \/ PopCapped
    \/ PopSkipped
    \/ PopRunner
    \/ RunnerReturns
    \/ SetStop

Spec == Init /\ [][Next]_vars

\* job runs on its own thread: every step of it that can be taken is taken
JobStep == Seed \/ Finish \/ Abort \/ PopCapped \/ PopSkipped \/ PopRunner \/ RunnerReturns

FairSpec == Spec /\ WF_vars(JobStep)

TypeOK ==
    /\ pc \in {"start", "loop", "runner", "returned", "raised"}
    /\ \A s \in Services : number_of_runs[s] \in 0..MaxRuns /\ targets[s] \subseteq Devices
    /\ visited \subseteq Services

\* ------------------------------------------------- the state store's calls
\* the paths of a tree's leaves, and their values
RECURSIVE LeafPaths(_)
LeafPaths(node) ==
    IF node.kind # "dict" THEN {<<>>}
    ELSE UNION {{<<k>> \o q : q \in LeafPaths(node.items[k])} : k \in DOMAIN node.items}

RECURSIVE LeafValues(_)
LeafValues(node) ==
    IF node.kind # "dict" THEN {node.value}
    ELSE UNION {LeafValues(node.items[k]) : k \in DOMAIN node.items}

\* Environment.redis: the store call returns (TRUE), or raises ConnectionError
\* or TimeoutError, which is caught and logged, and None is returned (FALSE)
RedisCallOutcomes == BOOLEAN

\* a Run.state persisted at the end of an earlier execution of the run
PersistedState(r) == Dict(Put(<<>>, "status", Leaf("str", CHOOSE v \in Values(r) : TRUE)))

\* the engine is not running
EngineIdle ==
    /\ edges = {}
    /\ svc = [s \in Services |->
                [priority |-> 1, maximum_runs |-> 1, skip |-> FALSE, skip_value |-> "True"]]
    /\ run = [run_method |-> "per_device", target_devices |-> {}, start_services |-> <<>>,
              stop |-> FALSE]
    /\ device = {}
    /\ pc = "start"
    /\ number_of_runs = [s \in Services |-> 0]
    /\ targets = [s \in Services |-> {}]
    /\ services = <<>>
    /\ visited = {}
    /\ service = "None"
    /\ state = [p \in Paths |-> Unset]
    /\ results = NoResults
    /\ hist = [runner_calls |-> [s \in Services |-> 0], pushes |-> 0, stopped_in |-> "none",
               empty_results |-> 0, dispatched |-> [s \in Services |-> {}],
               last |-> Last("none", NoEntry, "none", {}, <<>>, "none", NoSummary)]

StoreInit ==
    /\ EngineIdle
    /\ AdminIdle(FALSE)
    /\ redis_queue \in BOOLEAN
    /\ persisted \in {[r \in Runtimes |-> IF r \in P THEN PersistedState(r) ELSE EmptyDict] :
                         P \in {{}, {"r1"}}}
    /\ StoreEmpty

\* Runner.write_state(path, value) of run r: SET <runtime>/state/<path> on the
\* shared store (a boolean as "True"/"False"), or the assignment in the
\* run's in-process tree
RunnerWritesState ==
    /\ call.pc \in {"idle", "mget"}
    /\ \E r \in Runtimes : \E p \in PathsOf(r), v \in Values(r) :
          IF redis_queue
          THEN /\ Cardinality({k \in AllKeys : redis_db[k].type = "string"}
                                 \cup {StateKey(r, p)}) <= MaxStateKeys
               /\ redis_db' = redis_set(redis_db, StateKey(r, p), v)
               /\ UNCHANGED run_states
          ELSE LET t == tree_set(run_states[r], p, Convert(v))
                   after == [run_states EXCEPT ![r] = t]
               IN  /\ t.kind # "TypeError"
                   /\ Cardinality(UNION {{<<x, q>> : q \in LeafPaths(after[x])} : x \in Runtimes})
                         <= MaxStateKeys
                   /\ run_states' = after
                   /\ UNCHANGED redis_db
    /\ UNCHANGED <<engine_vars, admin_vars, redis_queue, run_logs, persisted, call, added>>

\* Run.get_state, automation.py:394-400 and 410-411: the persisted state,
\* the KEYS call of the shared store, or the in-process tree
get_state ==
    /\ call.pc = "idle"
    /\ \E r \in Runtimes :
          LET c0 == [NoCall EXCEPT !.name = "get_state", !.runtime = r]
          IN  IF persisted[r] # EmptyDict
              THEN call' = [c0 EXCEPT !.pc = "returned", !.returned = persisted[r]]
              ELSE IF redis_queue
              THEN \E ok \in RedisCallOutcomes :
                      IF ~ok
                      THEN call' = [c0 EXCEPT !.pc = "returned", !.failed = TRUE, !.logged = TRUE]
                      ELSE \E keys \in Orders(redis_keys(redis_db, r)) :
                              IF Len(keys) = 0
                              THEN call' = [c0 EXCEPT !.pc = "returned"]
                              ELSE call' = [c0 EXCEPT !.pc = "mget", !.keys = keys]
              ELSE call' = [c0 EXCEPT !.pc = "returned", !.returned = run_states[r]]
    /\ UNCHANGED <<engine_vars, admin_vars, redis_queue, redis_db, run_states, run_logs, persisted, added>>

\* automation.py:401-409: the MGET call, zip, and the assembly of the tree;
\* zip(keys, None) raises TypeError when the call failed
get_state_mget ==
    /\ call.pc = "mget"
    /\ \E ok \in RedisCallOutcomes :
          IF ~ok
          THEN call' = [call EXCEPT !.pc = "raised", !.raised = "TypeError",
                                    !.failed = TRUE, !.logged = TRUE]
          ELSE LET values == redis_mget(redis_db, call.keys)
                   data == [i \in 1..Len(call.keys) |-> <<call.keys[i], values[i]>>]
                   tree == get_state_loop(EmptyDict, data)
               IN  IF tree.kind = "TypeError"
                   THEN call' = [call EXCEPT !.pc = "raised", !.raised = "TypeError",
                                             !.data = data]
                   ELSE call' = [call EXCEPT !.pc = "returned", !.returned = tree,
                                             !.data = data]
    /\ UNCHANGED <<engine_vars, admin_vars, redis_queue, redis_db, run_states, run_logs, persisted, added>>

\* the number of lines accepted so far
TotalAdded == Cardinality({<<r, s, i>> \in Runtimes \X ServiceIds \X (1..MaxLogLen) :
                              i <= Len(added[r][s])})

\* Environment.log_queue(runtime, service, log, mode="add")
log_queue_add ==
    /\ call.pc = "idle"
    /\ TotalAdded < MaxLogLen
    /\ \E r \in Runtimes, s \in ServiceIds : \E log \in Lines(r) :
          LET c0 == [NoCall EXCEPT !.name = "log_queue", !.mode = "add",
                                   !.runtime = r, !.service = s]
          IN  IF redis_queue
              THEN /\ run_logs' = [run_logs EXCEPT ![r][s] = NoneList]
                   /\ \E ok \in RedisCallOutcomes :
                         IF ok
                         THEN /\ redis_db' = redis_lpush(redis_db, LogKey(r, s), log)
                              /\ added' = [added EXCEPT ![r][s] = Append(@, log)]
                              /\ call' = [c0 EXCEPT !.pc = "returned"]
                         ELSE /\ UNCHANGED <<redis_db, added>>
                              /\ call' = [c0 EXCEPT !.pc = "returned", !.nil = TRUE,
                                                    !.failed = TRUE, !.logged = TRUE]
              ELSE IF run_logs[r][s].none
              THEN /\ call' = [c0 EXCEPT !.pc = "raised", !.raised = "AttributeError"]
                   /\ UNCHANGED <<redis_db, run_logs, added>>
              ELSE /\ run_logs' = [run_logs EXCEPT ![r][s] = LogList(Append(@.lines, log))]
                   /\ added' = [added EXCEPT ![r][s] = Append(@, log)]
                   /\ call' = [c0 EXCEPT !.pc = "returned", !.nil = TRUE]
                   /\ UNCHANGED redis_db
    /\ UNCHANGED <<engine_vars, admin_vars, redis_queue, run_states, persisted>>

\* Environment.log_queue(runtime, service, mode="get", start_line=n)
log_queue_get ==
    /\ call.pc = "idle"
    /\ \E r \in Runtimes, s \in ServiceIds, n \in 0..MaxLogLen :
          LET c0 == [NoCall EXCEPT !.name = "log_queue", !.mode = "get",
                                   !.runtime = r, !.service = s, !.start_line = n]
          IN  IF redis_queue
              THEN /\ run_logs' = [run_logs EXCEPT ![r][s] = NoneList]
                   /\ \E ok \in RedisCallOutcomes :
                         IF ok
                         THEN call' = [c0 EXCEPT !.pc = "returned",
                                         !.lines = shared_get(redis_lrange(redis_db, LogKey(r, s)), n)]
                         ELSE call' = [c0 EXCEPT !.pc = "returned", !.nil = TRUE,
                                                 !.failed = TRUE, !.logged = TRUE]
              ELSE /\ UNCHANGED run_logs
                   /\ IF run_logs[r][s].none
                      THEN call' = [c0 EXCEPT !.pc = "raised", !.raised = "TypeError"]
                      ELSE call' = [c0 EXCEPT !.pc = "returned",
                                      !.lines = SliceFrom(run_logs[r][s].lines, n)]
    /\ UNCHANGED <<engine_vars, admin_vars, redis_queue, redis_db, run_states, persisted, added>>

\* the caller takes what the call returned or raised
CallEnds ==
    /\ call.pc \in {"returned", "raised"}
    /\ call' = NoCall
    /\ UNCHANGED <<engine_vars, admin_vars, redis_queue, redis_db, run_states, run_logs, persisted, added>>

StoreNext ==
    \/ RunnerWritesState
    \/ CallEnds
    \/ get_state
    \/ get_state_mget
    \/ log_queue_add
    \/ log_queue_get

StoreSpec == StoreInit /\ [][StoreNext]_vars

\* ------------------------------------------------------------- properties
PopKinds == {"capped", "skipped", "dispatch"}

\* the entries of a heap
Entries(heap) == {heap[i] : i \in 1..Len(heap)}

\* the edges of the executing workflow that leave s with the given subtype
OutEdges(s, subtype) ==
    {e.id : e \in {x \in edges : x.source = s /\ x.subtype = subtype /\ x.workflow = self}}

\* C1: for every service the number of Runner invocations never exceeds its
\* maximum_runs, and never its number of counted runs: a pop that finds the
\* count at maximum_runs creates no Runner.
C1_RunCountCap ==
    \A s \in Services :
        /\ hist.runner_calls[s] <= svc[s].maximum_runs
        /\ hist.runner_calls[s] <= number_of_runs[s]
        /\ number_of_runs[s] <= svc[s].maximum_runs

\* a service that has had all the runs it may have is popped once more, and
\* passed over
C1_Witness ==
    /\ hist.last.kind = "capped"
    /\ hist.runner_calls[hist.last.entry.service] = svc[hist.last.entry.service].maximum_runs
    /\ hist.runner_calls[hist.last.entry.service] = MaxRuns

\* C2: whatever the graph, job eventually returns a result (every Runner
\* call of the model returns).
C2_Termination == <>(pc = "returned")

\* C3: when job ends with a summary (BFS mode or per-device mode), the
\* devices that reached End are among those that were at Start, and success
\* is reported exactly when the two sets are equal.
C3_TargetClosure ==
    (pc = "returned" /\ results.kind = "summary") =>
        /\ targets[end] \subseteq targets[start]
        /\ results.success <=> (targets[end] = targets[start])

\* the cancellation scenario: the workflow Start -> A -> End, run from Start
CancellationScenario ==
    /\ {e \in edges : e.workflow = self} =
          {Edge(1, "W", "Start", "A", "success"), Edge(6, "W", "A", "End", "success")}
    /\ run.start_services = <<>>

\* C4: a loop iteration that starts with run.stop set returns the aborted
\* result and changes nothing else; and in Start -> A -> End, once the stop
\* was requested while A's Runner was executing, job returns the aborted
\* result and End is not dispatched.
C4_Cancellation ==
    [][/\ (pc = "loop" /\ services # <<>> /\ run.stop) =>
             /\ pc' = "returned"
             /\ results'.kind = "Aborted" /\ ~results'.success
             /\ UNCHANGED <<services, number_of_runs, visited, targets, state>>
       /\ (CancellationScenario /\ hist.stopped_in = "runner" /\ pc' = "returned") =>
             /\ results'.kind = "Aborted" /\ ~results'.success
             /\ end \notin visited']_vars

\* C5: no Runner is ever created for Start, End or a skipped service; the
\* outcome synthesised for it is success exactly when its skip_value is
\* "success", and then all its success edges are followed.
C5_SkipSemantics ==
    /\ \A s \in Services : IsSkipped(s) => hist.runner_calls[s] = 0
    /\ hist.last.kind = "skipped" =>
          LET s == hist.last.entry.service
          IN  /\ (hist.last.status = "success") <=> (svc[s].skip_value = "success")
              /\ svc[s].skip_value = "success" =>
                    hist.last.followed = OutEdges(s, "success")

\* C6: a pop takes a service of the highest priority among the services
\* pending at that moment.
C6_PriorityOrder ==
    hist.last.kind \in PopKinds =>
        \A t \in Entries(hist.last.heap) :
            svc[t.service].priority <= svc[hist.last.entry.service].priority

\* C7: among the pending services of the priority of the popped one, the
\* popped one was pushed first.
C7_TieBreakStable ==
    hist.last.kind \in PopKinds =>
        \A t \in Entries(hist.last.heap) :
            svc[t.service].priority = svc[hist.last.entry.service].priority
                => hist.last.entry.seq <= t.seq

\* the number an edge's state stands for
EdgeCount(v) == IF v.kind = "int" THEN v.n ELSE 0

\* C8: no step of the run lowers, resets or retypes the state of an edge:
\* where device counts are kept (BFS mode, per-device mode) it stays unset or
\* becomes a number that never decreases; otherwise it only goes from unset
\* to "DONE" and stays there.
C8_EdgeMonotone ==
    [][\A i \in EdgeIds :
          LET a == state[<<"edges", i>>]
              b == state'[<<"edges", i>>]
          IN  IF tracking_bfs \/ device # {}
              THEN /\ b.kind \in {"unset", "int"}
                   /\ a.kind = "int" => b.kind = "int"
                   /\ EdgeCount(a) <= EdgeCount(b)
                   /\ (tracking_bfs /\ a # b) => EdgeCount(a) < EdgeCount(b)
              ELSE a = b \/ (a = Unset /\ b = Done)]_vars

\* an edge has been written on two dispatches of its source, growing each time
C8_Witness ==
    \E i \in EdgeIds :
        /\ state[<<"edges", i>>].kind = "int"
        /\ state[<<"edges", i>>].n > NumDevices
        /\ hist.last.kind = "runner" /\ i \in hist.last.followed

\* the two per-service run methods, which the glossary calls BFS mode
PerServiceRunMethod ==
    run.run_method \in {"per_service_with_workflow_targets",
                        "per_service_with_service_targets"}

\* C9: under either per-service run method a dispatch forwards each
\* non-empty summary bucket along all the edges of its type (both types when
\* both buckets are non-empty), and a run that is not aborted returns the
\* summary result computed from targets[Start] and targets[End].
C9_BFSBothRunMethods ==
    (PerServiceRunMethod /\ device = {}) =>
        /\ hist.last.kind = "runner" =>
              \A e \in edges :
                  (/\ e.source = hist.last.entry.service
                   /\ e.workflow = self
                   /\ hist.last.summary[e.subtype] # {})
                      => /\ e.id \in hist.last.followed
                         /\ hist.last.summary[e.subtype] \subseteq targets[e.destination]
        /\ (pc = "returned" /\ results.kind # "Aborted") =>
              /\ results.kind = "summary"
              /\ results.success <=> (targets[start] \subseteq targets[end])

\* C10: in per-device mode (job called with a device, no BFS) a dispatch
\* follows exactly the edges of the executing workflow whose subtype is its
\* outcome.
C10_SingleEdgeSubtype ==
    (~tracking_bfs /\ device # {} /\ hist.last.kind \in {"runner", "skipped"}) =>
        hist.last.followed = OutEdges(hist.last.entry.service, hist.last.status)

\* the workflow of the executing run
WorkflowEdges == {e \in edges : e.workflow = self}

\* C11 as the specification states it: whenever the engine is not in BFS
\* mode, job returns {payload, success} where success tells whether End was
\* dispatched.
C11_NonBFSResult ==
    (~tracking_bfs /\ pc = "returned") =>
        /\ results.kind = "plain"
        /\ results.success <=> (end \in visited)

\* C11: when job is called without a device and not in BFS mode, and the run
\* is not aborted, job returns {payload, success} where success tells whether
\* End was dispatched.
C11_PlainResult ==
    (~tracking_bfs /\ device = {} /\ pc = "returned" /\ results.kind # "Aborted") =>
        /\ results.kind = "plain"
        /\ results.success <=> (end \in visited)

\* a plain walk dispatched A, reached End and returned success
C11_Witness ==
    /\ ~tracking_bfs /\ device = {}
    /\ pc = "returned" /\ results.kind = "plain"
    /\ results.success /\ end \in visited
    /\ hist.runner_calls["A"] > 0

\* C12: in BFS mode a dispatch adds each bucket of the Runner's summary to
\* the targets of every successor along the edges of that type and follows no
\* edge of a type whose bucket is empty; and in the branch scenario, where A
\* fails some devices and B succeeds for all of them, job returns success
\* with every start target at End, whether End or B was popped first.
C12_BFSRouting ==
    /\ (tracking_bfs /\ hist.last.kind = "runner") =>
          \A e \in WorkflowEdges :
              e.source = hist.last.entry.service =>
                  IF hist.last.summary[e.subtype] # {}
                  THEN hist.last.summary[e.subtype] \subseteq targets[e.destination]
                  ELSE e.id \notin hist.last.followed
    /\ (/\ tracking_bfs /\ WorkflowEdges = BranchGraph /\ run.start_services = <<>>
        /\ pc = "returned" /\ results.kind = "summary"
        /\ targets["B"] # {}
        /\ state[<<"edges", 7>>] = IntValue(Cardinality(targets["B"]))) =>
          /\ targets[end] = targets[start]
          /\ results.success

\* C13: in the linear scenario with the single target device d1, once A and
\* B have both run and succeeded and job has returned, the result is success,
\* targets[End] is {d1} and progress/service/success is 2.
C13_LinearSuccess ==
    (/\ WorkflowEdges = LinearGraph /\ run.start_services = <<>>
     /\ (device = {1} \/ (device = {} /\ run.target_devices = {1}))
     /\ pc = "returned" /\ results.kind # "Aborted"
     /\ hist.runner_calls["A"] = 1 /\ hist.runner_calls["B"] = 1
     /\ end \in visited) =>
        /\ results.success
        /\ targets[end] = {1}
        /\ state[<<"progress", "service", "success">>] = IntValue(2)

\* C14: propagating the non-empty results of a Runner never raises for want
\* of a summary, in any mode.
C14_ErrorContainment ==
    hist.last.kind = "runner" => hist.last.raised # "KeyError"

\* C15: pushing a service of priority 0, as a seed or as a successor, never
\* raises an arithmetic error.
C15_PriorityZeroCoerced ==
    hist.last.raised # "ZeroDivisionError"

\* C16: a pop that finds a service on a cycle already dispatched
\* maximum_runs times ends the run with a failure.
C16_OverflowNotSilent ==
    (/\ hist.last.kind = "capped"
     /\ hist.last.entry.service = "A"
     /\ \E e \in WorkflowEdges : e.source = "A" /\ e.destination = "A") =>
        (pc = "returned" /\ ~results.success)

\* ----------------------------------------------- properties of the store
\* the members of a sequence
Range(q) == {q[i] : i \in 1..Len(q)}

\* the node at a path of a tree
RECURSIVE Lookup(_, _)
Lookup(node, path) ==
    IF path = <<>> THEN node
    ELSE IF node.kind = "dict" /\ Head(path) \in DOMAIN node.items
    THEN Lookup(node.items[Head(path)], Tail(path))
    ELSE TypeErrorTree

\* C17: a get_state of one run returns only values written under its own
\* runtime, a log_queue get returns only lines added under its own runtime,
\* and the log list of a runtime, in either backend, holds only lines added
\* under it, however the calls and writes of the two runs interleave.
C17_StateIsolation ==
    /\ (call.name = "get_state" /\ call.pc = "returned") =>
          LeafValues(call.returned) \subseteq Values(call.runtime)
    /\ (call.name = "log_queue" /\ call.mode = "get" /\ call.pc = "returned") =>
          Range(call.lines) \subseteq Lines(call.runtime)
    /\ \A r \in Runtimes, s \in ServiceIds :
          /\ Range(redis_db[LogKey(r, s)].list) \subseteq Lines(r)
          /\ Range(run_logs[r][s].lines) \subseteq Lines(r)

\* run r1 reads its state from the shared store while r2 has state and log
\* lines stored there
C17_Witness ==
    /\ redis_queue
    /\ call.name = "get_state" /\ call.runtime = "r1" /\ call.pc = "returned"
    /\ call.returned # EmptyDict /\ call.data # <<>>
    /\ \E p \in PathsOf("r2") : redis_db[StateKey("r2", p)].type = "string"
    /\ redis_db[LogKey("r2", "7")].list # <<>>

\* C18: when a call to the shared store fails, the error is logged and
\* get_state and log_queue return an empty tree or None without raising.
C18_StoreFailureNonFatal ==
    call.failed =>
        /\ call.logged
        /\ call.raised = "none"
        /\ call.pc = "returned"
        /\ call.name = "get_state" => call.returned = EmptyDict
        /\ call.name = "log_queue" => call.nil

\* C19: a log_queue get whose store call succeeds returns the lines the
\* queue has accepted so far, from index start_line on, in the order of the
\* adds, with the shared backend as with the local one.
C19_LogOrder ==
    [][(/\ call' # call
        /\ call'.name = "log_queue" /\ call'.mode = "get"
        /\ ~call'.failed) =>
           /\ call'.pc = "returned"
           /\ call'.lines = SliceFrom(added[call'.runtime][call'.service], call'.start_line)]_vars

\* two lines were added through the shared store and a get from line 1 has
\* returned the second
C19_Witness ==
    /\ redis_queue
    /\ call.name = "log_queue" /\ call.mode = "get" /\ call.pc = "returned"
    /\ call.runtime = "r1" /\ call.start_line = 1
    /\ added["r1"]["7"] = <<"a1", "a2">>
    /\ call.lines = <<"a2">>

\* the value get_state returns for a stored string
ExpectedLeaf(v) ==
    IF v = "True" THEN Leaf("bool", "True")
    ELSE IF v = "False" THEN Leaf("bool", "False")
    ELSE Leaf("str", v)

\* the state keys the shared store holds for a runtime
StoredStateKeys(r) ==
    {k \in AllKeys : k[1] = r /\ k[2] = "state" /\ redis_db[k].type = "string"}

\* no key is another key followed by further segments
PrefixFree(keys) ==
    \A k1, k2 \in keys :
        (Len(k1) < Len(k2)) => SubSeq(k2, 1, Len(k1)) # k1

\* a get_state call with this outcome, made in this step
GetStateStep(r) ==
    /\ call' # call
    /\ call'.name = "get_state" /\ call'.runtime = r
    /\ ~call'.failed

\* get_state's tree holds every key of the KEYS call at its path, with the
\* value stored for it now, and nothing else
Assembled ==
    /\ call'.pc = "returned"
    /\ \A k \in Range(call.keys) :
          Lookup(call'.returned, SubSeq(k, 3, Len(k))) = ExpectedLeaf(redis_db[k].string)
    /\ LeafPaths(call'.returned) = {SubSeq(k, 3, Len(k)) : k \in Range(call.keys)}

\* what get_state does when the tree need not be assembled: the persisted
\* state first, then the in-process tree of the local backend, the empty
\* tree when the shared store holds no key of the run, and otherwise the
\* KEYS call returns exactly the run's stored keys
GetStateSources(r) ==
    /\ persisted[r] # EmptyDict =>
          (call'.pc = "returned" /\ call'.returned = persisted[r])
    /\ (persisted[r] = EmptyDict /\ ~redis_queue) =>
          (call'.pc = "returned" /\ call'.returned = run_states[r])
    /\ (persisted[r] = EmptyDict /\ redis_queue /\ call.pc = "idle") =>
          IF StoredStateKeys(r) = {}
          THEN call'.pc = "returned" /\ call'.returned = EmptyDict
          ELSE call'.pc = "mget" /\ Range(call'.keys) = StoredStateKeys(r)

SeedServices ==
    IF run.start_services # <<>> THEN Range(run.start_services) ELSE {start}

\* C24: job follows only edges of the executing workflow: every edge it
\* followed and every edge whose state it wrote belongs to that workflow, and
\* every pending service is a seed or the destination of one of its edges,
\* also for a service that has edges in another workflow.
C24_EdgesScoped ==
    /\ hist.last.followed \subseteq {e.id : e \in WorkflowEdges}
    /\ \A i \in EdgeIds :
          state[<<"edges", i>>] # Unset => i \in {e.id : e \in WorkflowEdges}
    /\ \A t \in Entries(services) :
          t.service \in SeedServices \cup {e.destination : e \in WorkflowEdges}

\* A, which has a failure edge in another workflow, failed, and job
\* followed its failure edge of the executing workflow
C24_Witness ==
    /\ hist.last.kind = "runner" /\ hist.last.entry.service = "A"
    /\ hist.last.status = "failure"
    /\ \E e \in edges : e.workflow # self /\ e.source = "A" /\ e.subtype = "failure"
    /\ hist.last.followed # {}

\* C28: the step in which a Runner returns an empty result changes no
\* progress counter, no edge state, no targets set and not the heap, and the
\* step that popped the service changed only the heap, the service's run
\* count and the visited set.
C28_EmptyResultFrame ==
    [][/\ hist'.empty_results > hist.empty_results =>
             /\ pc' = "loop"
             /\ UNCHANGED <<state, targets, services, number_of_runs, visited>>
       /\ (pc = "loop" /\ pc' = "runner") =>
             /\ UNCHANGED <<state, targets>>
             /\ services' = heappop(services)[1]
             /\ number_of_runs' = [number_of_runs EXCEPT ![service'] = @ + 1]
             /\ visited' = visited \cup {service'}]_vars

\* in a plain walk the Runner of a service with outgoing edges returned an
\* empty result
C28_Witness ==
    /\ hist.last.kind = "empty" /\ hist.empty_results > 0
    /\ ~tracking_bfs /\ device = {}
    /\ \E e \in WorkflowEdges : e.source = service

\* the value of a progress counter
ProgressCount(status) == EdgeCount(state[<<"progress", "service", status>>])

\* the dispatches that have produced a non-empty result so far
RECURSIVE SumRuns(_)
SumRuns(S) ==
    IF S = {} THEN 0
    ELSE LET s == CHOOSE x \in S : TRUE
         IN  number_of_runs[s] + SumRuns(S \ {s})

NonEmptyDispatches ==
    SumRuns(Services) - hist.empty_results - (IF pc = "runner" THEN 1 ELSE 0)

\* C29: in a plain walk (not BFS, no device) the two progress counters never
\* decrease, a step adds at most 1 to them, and their sum is the number of
\* dispatches that produced a non-empty result; in BFS mode and in
\* per-device mode they are never written.
C29_ProgressAccounting ==
    [][/\ ProgressCount("success")' >= ProgressCount("success")
       /\ ProgressCount("failure")' >= ProgressCount("failure")
       /\ IF ~tracking_bfs /\ device = {}
          THEN /\ ProgressCount("success")' + ProgressCount("failure")' = NonEmptyDispatches'
               /\ ProgressCount("success")' + ProgressCount("failure")'
                     <= ProgressCount("success") + ProgressCount("failure") + 1
          ELSE /\ state'[<<"progress", "service", "success">>] = Unset
               /\ state'[<<"progress", "service", "failure">>] = Unset]_vars

\* a plain walk has counted a success and a failure
C29_Witness ==
    /\ ~tracking_bfs /\ device = {}
    /\ ProgressCount("success") > 0 /\ ProgressCount("failure") > 0
    /\ hist.runner_calls["A"] > 0

\* C30: once run.stop was set while job was executing, what job returns is
\* the aborted result, with success false.
C30_StopPreventsSuccess ==
    (pc = "returned" /\ run.stop) =>
        (results.kind = "Aborted" /\ ~results.success)

\* ------------------------------------------- Run rows and the run registry
\* Run.__init__(**kwargs): update() sets the properties given, then the
\* targets of restart_run replace the targets given; state is not among the
\* keyword arguments and stays None
Run_init ==
    /\ \E id \in RunIds :
          /\ ~runs[id].exists
          /\ \A j \in RunIds : j < id => runs[j].exists
          /\ \E td \in TargetChoices, tp \in PoolChoices :
             \E rr \in {0} \cup {j \in RunIds : runs[j].exists} :
                LET prior == IF rr = 0 THEN NoRun ELSE runs[rr]
                IN  runs' = [runs EXCEPT ![id] =
                       [exists |-> TRUE,
                        target_devices |-> Run_init_targets(td, prior.target_devices, rr),
                        target_pools |-> Run_init_targets(tp, prior.target_pools, rr),
                        restart_run |-> rr, state |-> "None",
                        kwargs |-> [target_devices |-> td, target_pools |-> tp],
                        pc |-> "created", writes |-> 0]]
    /\ UNCHANGED <<engine_vars, store_vars, run_targets, task, credential, design>>

\* Run.run, lines 427-431: the registry entry is written, then the root
\* Runner is constructed
Run_run ==
    /\ \E id \in RunIds :
          /\ runs[id].pc = "created"
          /\ run_targets' = [run_targets EXCEPT
                               ![id] = [present |-> TRUE, devices |-> filtering(id)]]
          /\ runs' = [runs EXCEPT ![id].pc = "runner", ![id].writes = @ + 1]
    /\ UNCHANGED <<engine_vars, store_vars, task, credential, design>>

\* lines 432-446: the Runner returns, or raises; Run.run has no handler, an
\* exception leaves it at once
Runner_ends ==
    /\ \E id \in RunIds :
          /\ runs[id].pc = "runner"
          /\ \E outcome \in {"returned", "raised"} :
                runs' = IF outcome = "returned"
                        THEN [runs EXCEPT ![id].pc = "commit", ![id].state = FinalState]
                        ELSE [runs EXCEPT ![id].pc = "raised"]
    /\ UNCHANGED <<engine_vars, store_vars, run_targets, task, credential, design>>

\* lines 447-450: payload, commit, the entry is popped, the results returned
Run_run_end ==
    /\ \E id \in RunIds :
          /\ runs[id].pc = "commit"
          /\ run_targets' = [run_targets EXCEPT ![id] = NoTargets]
          /\ runs' = [runs EXCEPT ![id].pc = "finished"]
    /\ UNCHANGED <<engine_vars, store_vars, task, credential, design>>

\* ------------------------------------------------- Task's scheduler client
UnreachableAlert == "Scheduler Unreachable: the task cannot be scheduled."

\* Task.schedule(mode): pause is schedule(mode="pause")
Task_schedule ==
    /\ \E mode \in {"schedule", "pause"}, outcome \in PostOutcomes, active \in BOOLEAN :
          LET exc == Raises(outcome)
              made == [op |-> "schedule", mode |-> mode, outcome |-> outcome,
                       pc |-> "returned", value |-> Value("None", "", FALSE), exc |-> ""]
          IN  /\ outcome # "json" => ~active
              /\ IF exc = "ConnectionError"
                 THEN task' = [task EXCEPT !.call = [made EXCEPT !.value = Value("alert", UnreachableAlert, FALSE)]]
                 ELSE IF exc # ""
                 THEN task' = [task EXCEPT
                                 !.call = [made EXCEPT !.value = catch_request_exceptions(exc)]]
                 ELSE task' = [is_active |-> active, last_scheduled_by |-> "user",
                               call |-> [made EXCEPT !.value = Value("json", "", active)]]
    /\ UNCHANGED <<engine_vars, store_vars, runs, run_targets, credential, design>>

\* a read of the scheduler under _catch_request_exceptions
Task_read(op, text) ==
    \E outcome \in GetOutcomes :
       LET exc == Raises(outcome)
       IN  task' = [task EXCEPT !.call =
                      [op |-> op, mode |-> "", outcome |-> outcome, pc |-> "returned",
                       value |-> IF exc = "" THEN Value("json", text, FALSE)
                                 ELSE catch_request_exceptions(exc),
                       exc |-> ""]]

Task_next_run_time ==
    /\ Task_read("next_run_time", "2026-11-05 12:00:00")
    /\ UNCHANGED <<engine_vars, store_vars, runs, run_targets, credential, design>>

Task_time_before_next_run ==
    /\ Task_read("time_before_next_run", "0:10:00")
    /\ UNCHANGED <<engine_vars, store_vars, runs, run_targets, credential, design>>

\* Task.delete: the post is not under _catch_request_exceptions and the
\* response is not read
Task_delete ==
    /\ \E outcome \in PostOutcomes :
          LET exc == IF outcome = "ConnectionError" THEN outcome ELSE ""
          IN  task' = [task EXCEPT !.call =
                         [op |-> "delete", mode |-> "", outcome |-> outcome,
                          pc |-> IF exc = "" THEN "returned" ELSE "raised",
                          value |-> Value("None", "", FALSE), exc |-> exc]]
    /\ UNCHANGED <<engine_vars, store_vars, runs, run_targets, credential, design>>

\* no run, no scheduler call, no secret and no workflow yet
AdminInit == EngineIdle /\ StoreIdle /\ AdminIdle(FALSE)

RunNext ==
    \/ Run_init
    \/ Run_run
    \/ Runner_ends
    \/ Run_run_end
    \/ Task_schedule
    \/ Task_next_run_time
    \/ Task_time_before_next_run
    \/ Task_delete

RunSpec == AdminInit /\ [][RunNext]_vars

\* --------------------------------------- properties of Run and of Task
\* C21: Run.run writes run_targets[runtime] once before the Runner starts,
\* the entry is there while the Runner executes, and once Run.run is over,
\* by a return or by an exception, the entry is gone; a run's entry holds
\* the devices of that run whatever the other runs do.
C21_RegistryLifecycle ==
    \A id \in RunIds :
       /\ runs[id].pc \in {"none", "created"} => ~run_targets[id].present
       /\ runs[id].pc \in {"runner", "commit"} =>
             /\ run_targets[id] = [present |-> TRUE, devices |-> filtering(id)]
             /\ runs[id].writes = 1
       /\ runs[id].pc \in {"finished", "raised"} =>
             /\ ~run_targets[id].present
             /\ runs[id].writes = 1

\* C22: a scheduler call that met a connection error or a timeout has
\* returned a value, it has not raised.
C22_SchedulerNeverRaises ==
    task.call.outcome \in {"ConnectionError", "ReadTimeout"} => task.call.pc = "returned"

SchedulerFailures == {"ConnectionError", "ReadTimeout", "malformed"}

\* C23: after a connection error, a timeout or a response that is not JSON,
\* next_run_time and time_before_next_run return the string "Scheduler
\* Unreachable" and schedule returns the mapping with the alert "Scheduler
\* Unreachable: ...".
C23_SchedulerErrorValues ==
    task.call.outcome \in SchedulerFailures =>
       /\ task.call.op \in {"next_run_time", "time_before_next_run"} =>
             task.call.value = Value("str", "Scheduler Unreachable", FALSE)
       /\ task.call.op = "schedule" => task.call.value = Value("alert", UnreachableAlert, FALSE)

\* C26: a run created with restart_run has the target devices and pools of
\* restart_run, whatever the constructor was given, and until its own Runner
\* has finished its state is None; a run created without restart_run has the
\* targets it was given.
C26_RestartInheritance ==
    \A id \in RunIds : runs[id].exists =>
       /\ IF runs[id].restart_run # 0
          THEN /\ runs[id].target_devices = runs[runs[id].restart_run].target_devices
               /\ runs[id].target_pools = runs[runs[id].restart_run].target_pools
          ELSE /\ runs[id].target_devices = runs[id].kwargs.target_devices
               /\ runs[id].target_pools = runs[id].kwargs.target_pools
       /\ runs[id].pc \in {"created", "runner", "raised"} => runs[id].state = "None"

\* a run was created to restart a finished run, with other targets than
\* that run's in its keyword arguments
C26_Witness ==
    \E id \in RunIds :
       /\ runs[id].exists /\ runs[id].restart_run # 0 /\ runs[id].pc = "created"
       /\ runs[runs[id].restart_run].state = FinalState
       /\ runs[id].kwargs.target_devices # runs[runs[id].restart_run].target_devices
       /\ runs[id].kwargs.target_pools # runs[runs[id].restart_run].target_pools
       /\ runs[runs[id].restart_run].target_devices # {}

\* ------------------------------------------------------ private properties
\* FERNET_KEY is set or not when the Environment is built
CredentialInit ==
    /\ EngineIdle /\ StoreIdle
    /\ \E f \in BOOLEAN : AdminIdle(f)

\* setattr(instance, "password", value); secret keeps the last value that was
\* not empty
SetAttr ==
    /\ \E value \in {Py("str", x) : x \in Secrets} \cup {Py("str", <<>>), Py("None", <<>>)} :
       \E iv \in IVs :
          /\ ~credential.fernet => iv = 1
          /\ Falsy(value) => iv = 1
          /\ credential' = [credential EXCEPT
                !.stored = setattr_private(credential.fernet, @, value, iv),
                !.assigned = value,
                !.secret = IF Falsy(value) THEN @ ELSE value,
                !.op = "set"]
    /\ UNCHANGED <<engine_vars, store_vars, runs, run_targets, task, design>>

\* env.get_password(instance.password)
GetPassword ==
    /\ credential' = [credential EXCEPT
          !.retrieved = get_password(credential.fernet, credential.stored),
          !.op = "get"]
    /\ UNCHANGED <<engine_vars, store_vars, runs, run_targets, task, design>>

CredentialNext ==
    \/ SetAttr
    \/ GetPassword

CredentialSpec == CredentialInit /\ [][CredentialNext]_vars

\* C27: get_password of the stored value returns the secret assigned last,
\* with a Fernet key and with the base64 fallback, and the assignment of an
\* empty value leaves the stored value as it was.
C27_SecretRoundTrip ==
    [][/\ credential'.op = "get" => credential'.retrieved = credential'.secret
       /\ credential'.op = "set" =>
             IF Falsy(credential'.assigned)
             THEN credential'.stored = credential.stored
             ELSE /\ get_password(credential.fernet, credential'.stored) = credential'.assigned
                  /\ credential'.stored # credential'.assigned]_vars

\* without a Fernet key, a secret of two characters with one outside ASCII
\* was assigned, then an empty value, and get_password has returned the
\* secret
C27_Witness ==
    /\ ~credential.fernet
    /\ credential.op = "get" /\ credential.assigned = Py("str", <<>>)
    /\ credential.retrieved = Py("str", <<65, 233>>)
    /\ credential.stored.type = "str"

\* ---------------------------------------------------------- workflow design
\* a service: shared services are owned by "Shared", the others by the
\* workflow they were made in; the name is "[<owner>] <scoped_name>"
ServiceRef(scoped_name, owner) == [scoped_name |-> scoped_name, owner |-> owner]

\* db.fetch("service", scoped_name="Start") and "End": the two reserved
\* services, which are shared
Reserved(scoped_name) == ServiceRef(scoped_name, "Shared")

\* Workflow.__init__(**kwargs), not a migration import: Start and End are
\* put in self.services, then update() sets every property of kwargs, the
\* services relationship among them
Workflow_services(kwargs) ==
    IF kwargs.has_services THEN kwargs.services ELSE <<Reserved("Start"), Reserved("End")>>

NoServicesKwarg == [has_services |-> FALSE, services |-> <<>>]
CreationKwargs ==
    {NoServicesKwarg} \cup {[has_services |-> TRUE, services |-> l] : l \in {<<>>, <<ServiceRef("S", "Shared")>>}}

Workflow_init ==
    /\ ~design["W1"].exists
    /\ \E kwargs \in CreationKwargs :
          design' = [design EXCEPT !["W1"] =
                       [exists |-> TRUE, services |-> Workflow_services(kwargs),
                        edges |-> <<>>, clone_of |-> "none"]]
    /\ UNCHANGED <<engine_vars, store_vars, runs, run_targets, task, credential>>

\* the workflow is edited while it has no copy
Editable(w) == design[w].exists /\ \A n \in DesignNames : design[n].clone_of = "none"

\* a service is added to the workflow
AddService ==
    /\ Editable("W1")
    /\ \E ref \in {ServiceRef("A", "W1"), ServiceRef("S", "Shared")} :
          /\ ref \notin Range(design["W1"].services)
          /\ design' = [design EXCEPT !["W1"].services = Append(@, ref)]
    /\ UNCHANGED <<engine_vars, store_vars, runs, run_targets, task, credential>>

DesignEdge(subtype, source, destination) ==
    [subtype |-> subtype, source |-> source, destination |-> destination]

CandidateEdges(w) ==
    {DesignEdge("success", Reserved("Start"), ServiceRef("A", w)), DesignEdge("success", ServiceRef("A", w), Reserved("End")),
     DesignEdge("failure", ServiceRef("A", w), ServiceRef("S", "Shared")), DesignEdge("success", Reserved("Start"), Reserved("End"))}

\* an edge is added between two services of the workflow; the table's
\* UniqueConstraint(subtype, source_id, destination_id, workflow_id) refuses
\* a second edge with the same four values
AddEdge ==
    /\ Editable("W1")
    /\ Len(design["W1"].edges) < MaxEdges
    /\ \E e \in CandidateEdges("W1") :
          /\ e.source \in Range(design["W1"].services)
          /\ e.destination \in Range(design["W1"].services)
          /\ e \notin Range(design["W1"].edges)
          /\ design' = [design EXCEPT !["W1"].edges = Append(@, e)]
    /\ UNCHANGED <<engine_vars, store_vars, runs, run_targets, task, credential>>

\* Service.duplicate, lines 142-151: the names tried for the copy of a
\* workflow, "<scoped_name>" being taken by the workflow itself
NameCandidates(w) ==
    CASE w = "W1" -> <<"W1 (1)", "W1 (2)">>
      [] w = "W1 (1)" -> <<"W1 (1) (1)">>
      [] OTHER -> <<>>

\* Workflow.duplicate, lines 72-77: a shared service is reused, any other
\* is duplicated into the clone
clone_service(ref, clone) ==
    IF ref.owner = "Shared" THEN ref ELSE ServiceRef(ref.scoped_name, clone)

\* lines 71-82: the services of the clone after the loop
RECURSIVE duplicate_services(_, _, _)
duplicate_services(todo, clone, acc) ==
    IF todo = <<>> THEN acc
    ELSE LET ref == Head(todo)
             copy == clone_service(ref, clone)
         IN  duplicate_services(Tail(todo), clone,
                IF ref.owner = "Shared" /\ ref \in Range(acc) THEN acc ELSE Append(acc, copy))

\* lines 84-96: one workflow_edge per edge of the original
duplicate_edges(es, clone) ==
    [i \in 1..Len(es) |->
        DesignEdge(es[i].subtype, clone_service(es[i].source, clone),
                   clone_service(es[i].destination, clone))]

Workflow_duplicate ==
    /\ \E w \in DesignNames :
          /\ design[w].exists
          /\ LET free == {i \in 1..Len(NameCandidates(w)) :
                              ~design[NameCandidates(w)[i]].exists}
                 index == CHOOSE i \in free : \A j \in free : i <= j
                 clone == NameCandidates(w)[index]
             IN  /\ free # {}
                 /\ design' = [design EXCEPT ![clone] =
                    [exists |-> TRUE,
                     services |-> duplicate_services(design[w].services, clone,
                                                     Workflow_services(NoServicesKwarg)),
                     edges |-> duplicate_edges(design[w].edges, clone),
                     clone_of |-> w]]
    /\ UNCHANGED <<engine_vars, store_vars, runs, run_targets, task, credential>>

DesignNext ==
    \/ Workflow_init
    \/ AddService
    \/ AddEdge
    \/ Workflow_duplicate

DesignSpec == AdminInit /\ [][DesignNext]_vars

\* how often a scoped name occurs among the services of a workflow
Occurrences(w, scoped_name) ==
    Cardinality({i \in 1..Len(design[w].services) :
                    design[w].services[i].scoped_name = scoped_name})

\* C25: every workflow holds Start once and End once, and the copy of a
\* workflow has, for each edge of the original, one edge of the same subtype
\* between the copies (or the reused shared services) of its source and
\* destination, and no other edge.
C25_ReservedServices ==
    \A w \in DesignNames : design[w].exists =>
       /\ Occurrences(w, "Start") = 1
       /\ Occurrences(w, "End") = 1
       /\ design[w].clone_of # "none" =>
             LET original == design[design[w].clone_of]
             IN  /\ Len(design[w].edges) = Len(original.edges)
                 /\ \A i \in 1..Len(original.edges) :
                       /\ design[w].edges[i].subtype = original.edges[i].subtype
                       /\ design[w].edges[i].source
                             = clone_service(original.edges[i].source, w)
                       /\ design[w].edges[i].destination
                             = clone_service(original.edges[i].destination, w)
                       /\ design[w].edges[i].source \in Range(design[w].services)
                       /\ design[w].edges[i].destination \in Range(design[w].services)

\* ------------------------------------ the devices that reach a service
\* line 116: the starting target set
start_targets == IF device # {} THEN device ELSE run.target_devices

\* C31: in BFS and per-device mode, whatever the seeds, a result with
\* success true means that every starting target device is in targets[End],
\* and every starting target device is in exactly one of summary.success
\* and summary.failure.
C31_NoVacuousSuccess ==
    (pc = "returned" /\ results.kind = "summary" /\ results.success) =>
        /\ start_targets \subseteq targets[end]
        /\ \A d \in start_targets :
              (d \in results.summary.success) # (d \in results.summary.failure)

\* C32: in BFS mode, when job has returned and no stop was requested, every
\* device that was added to targets[s], for s other than End, was among the
\* target devices of a Runner created for s, or in the summary synthesised
\* for s; after the return nothing more is dispatched.
C32_NoStrandedDevice ==
    (tracking_bfs /\ pc = "returned" /\ ~run.stop) =>
        \A s \in Services \ {end} : targets[s] \subseteq hist.dispatched[s]

\* C33: the step that processes Start, End or a skipped service whose
\* skip_value is "failure" follows failure edges only, and changes the
\* targets of no service but the destinations of its failure edges.
C33_SkippedFailureEdges ==
    [][(pc = "loop" /\ hist'.last.kind = "skipped" /\ number_of_runs' # number_of_runs
        /\ svc[service'].skip_value = "failure") =>
          /\ \A e \in WorkflowEdges :
                e.id \in hist'.last.followed => (e.source = service' /\ e.subtype = "failure")
          /\ \A t \in Services :
                targets'[t] # targets[t] =>
                   \E e \in WorkflowEdges :
                      e.source = service' /\ e.subtype = "failure" /\ e.destination = t]_vars

====
